---- MODULE Spec2Model ----
(***************************************************************************)
(* A model of the radix heap of src/src/lib.rs: RadixHeapMap<K, V>, its    *)
(* Bucket, and the Radix metric of the key types.                          *)
(*                                                                         *)
(* Keys are modelled by their values (integers, tuples of integers, the    *)
(* unit value); the bit pattern of an integer key is computed from the     *)
(* value as two's complement of the key type's width.  The integer widths  *)
(* are scaled down from 8..64 bits to Bits and TupleBits bits, and the     *)
(* floats to one sign bit, FloatExpBits exponent bits and FloatManBits     *)
(* mantissa bits; "u32" keeps its 32 bits.                                 *)
(* Spec is the heap over the unit and the integer keys under every         *)
(* interleaving of its operations; SortSpec is the run of tests::sort,     *)
(* pushes onto a new heap and then pops, over every key type.              *)
(* Values are the ordinals of the pushes, as in tests::sort, which pushes  *)
(* (key, index) pairs.                                                     *)
(***************************************************************************)
EXTENDS Integers, Sequences, FiniteSets, TLC

\* Width, in bits, of the integer key types "u" and "i".
Bits == 2
\* Width, in bits, of each component of the tuple key type "(u,i)".
TupleBits == 1
\* Number of accepted pushes between two clears (or since construction).
MaxPush == 3
\* Width, in bits, of the exponent and of the mantissa of the float key type.
FloatExpBits == 2
FloatManBits == 1
\* Width, in bits, of u32.
U32Bits == 32

VARIABLES
    ktype,    \* the key type K of RadixHeapMap<K, V>
    len,      \* RadixHeapMap::len
    top,      \* RadixHeapMap::top, an Option<K>
    buckets,  \* RadixHeapMap::buckets, a Vec<Bucket<K, V>>
    initial,  \* RadixHeapMap::initial
    last,     \* the last call: see Call
    pushes,   \* history: the number of accepted pushes since new / clear
    pops,     \* history: the number of pops that returned Some since new / clear
    prevPop,  \* history: the key of the latest such pop, an Option<K>
    phase,    \* history: "fill" (only pushes since new / clear), "drain" (then
              \* only pops), "done" (until a pop returned None), else "mixed"
    sortIn,   \* history: the keys pushed in phase "fill", in push order
    sortOut,  \* history: the keys popped in phase "drain", in pop order
    moves     \* history, kept in MoveSpec only (None elsewhere): for the
              \* value v of an entry, the number of times the entry was moved
              \* to another bucket since it was pushed

vars == <<ktype, len, top, buckets, initial, last, pushes, pops, prevPop,
          phase, sortIn, sortOut, moves>>

----------------------------------------------------------------------------
\* Option<T>

None == <<>>
Some(x) == <<x>>
Unwrap(o) == o[1]

----------------------------------------------------------------------------
\* Bit patterns

Pow2(n) == 2 ^ n

\* The w-bit two's complement pattern of the integer k of a w-bit type, as a
\* natural.
ToBits(k, w) == IF k >= 0 THEN k ELSE k + Pow2(w)

RECURSIVE Xor(_, _)
Xor(a, b) ==
    IF a = 0 /\ b = 0 THEN 0
    ELSE (((a % 2) + (b % 2)) % 2) + 2 * Xor(a \div 2, b \div 2)

RECURSIVE BitLen(_)
BitLen(x) == IF x = 0 THEN 0 ELSE 1 + BitLen(x \div 2)

\* Faulty variant of leading_zeros: counts the zero bits from the least
\* significant end
RECURSIVE trailing_zeros(_, _)
trailing_zeros(x, w) ==
    IF w = 0 THEN 0 ELSE IF x % 2 = 1 THEN 0 ELSE 1 + trailing_zeros(x \div 2, w - 1)

\* <int>::leading_zeros of the w-bit pattern x
leading_zeros(x, w) == w - BitLen(x)

----------------------------------------------------------------------------
\* Key types: the unit key, an unsigned and a signed integer, and a tuple of
\* an unsigned and a signed integer (as (u32, i32) of tests::sort).
\* Further key types: u32, a tuple with a unit component, Reverse and Wrapping
\* of the integers, and the non-NaN float "f", a key of which is its bit
\* pattern.

KeyTypes == {"unit", "u", "i", "(u,i)"}
IntTypes == {"u", "i", "tu", "ti", "u32"}
TupleTypes == {"(u,i)", "(u,(),i)"}
WrapperTypes == {"rev(u)", "rev(i)", "wrap(u)"}

IsSigned(T) == T \in {"i", "ti"}
IntWidth(T) ==
    IF T \in {"u", "i"} THEN Bits ELSE IF T = "u32" THEN U32Bits ELSE TupleBits
TupleComps(T) == IF T = "(u,(),i)" THEN <<"tu", "unit", "ti">> ELSE <<"tu", "ti">>
\* The type T of Reverse<T> and Wrapping<T>
Inner(T) == IF T = "rev(i)" THEN "i" ELSE "u"

IntKeys(T) ==
    IF IsSigned(T) THEN (0 - Pow2(IntWidth(T) - 1)) .. (Pow2(IntWidth(T) - 1) - 1)
    ELSE 0 .. (Pow2(IntWidth(T)) - 1)

\* The float format: the sign bit, the exponent, the mantissa
FloatBits == 1 + FloatExpBits + FloatManBits
FloatSign(p) == p \div Pow2(FloatExpBits + FloatManBits)
FloatMagnitude(p) == p % Pow2(FloatExpBits + FloatManBits)
FloatExponent(p) == FloatMagnitude(p) \div Pow2(FloatManBits)
FloatMantissa(p) == p % Pow2(FloatManBits)
FloatIsNaN(p) == FloatExponent(p) = Pow2(FloatExpBits) - 1 /\ FloatMantissa(p) # 0
\* The bit patterns of the non-NaN floats: both zeros, the subnormal and the
\* normal numbers and both infinities
FloatKeys == {p \in 0 .. (Pow2(FloatBits) - 1) : ~FloatIsNaN(p)}
\* The rank of a non-NaN float in numeric order: the magnitude bits grow with
\* the absolute value, and -0.0 and +0.0 are equal
FloatRank(p) == IF FloatSign(p) = 0 THEN FloatMagnitude(p) ELSE 0 - FloatMagnitude(p)

\* The values of the components of a tuple type
CompKeys(T) == IF T = "unit" THEN {<<>>} ELSE IntKeys(T)

\* All values of the key type T.
Keys(T) ==
    IF T = "unit" THEN {<<>>}
    ELSE IF T \in IntTypes THEN IntKeys(T)
    ELSE IF T \in WrapperTypes THEN IntKeys(Inner(T))
    ELSE IF T = "f" THEN FloatKeys
    ELSE IF T = "(u,(),i)"
    THEN {<<a, u, b>> : a \in CompKeys(TupleComps(T)[1]), u \in CompKeys(TupleComps(T)[2]),
                        b \in CompKeys(TupleComps(T)[3])}
    ELSE {<<a, b>> : a \in IntKeys(TupleComps(T)[1]), b \in IntKeys(TupleComps(T)[2])}

RECURSIVE LexLe(_, _, _)
\* Ord of tuples: lexicographic, from component i on
LexLe(a, b, i) ==
    IF i > Len(a) THEN TRUE
    ELSE IF a[i] = b[i] THEN LexLe(a, b, i + 1)
    ELSE a[i] < b[i]

\* Faulty variant of Le: Reverse compares as its inner type
LeInner(T, a, b) ==
    IF T = "unit" THEN TRUE
    ELSE IF T \in IntTypes \/ T \in WrapperTypes THEN a <= b
    ELSE IF T = "f" THEN FloatRank(a) <= FloatRank(b)
    ELSE LexLe(a, b, 1)

\* Ord::le of the key type T; Reverse<T> reverses the order of T, the floats
\* compare by numeric value
Le(T, a, b) ==
    IF T = "unit" THEN TRUE
    ELSE IF T \in IntTypes \/ T = "wrap(u)" THEN a <= b
    ELSE IF T \in WrapperTypes THEN b <= a
    ELSE IF T = "f" THEN FloatRank(a) <= FloatRank(b)
    ELSE LexLe(a, b, 1)

\* Ord::lt
Lt(T, a, b) == ~Le(T, b, a)

\* RADIX_BITS of a component of a tuple
CompBits(T) == IF T = "unit" THEN 0 ELSE IntWidth(T)

RECURSIVE TupleBitsSum(_, _)
TupleBitsSum(comps, i) ==
    IF i > Len(comps) THEN 0 ELSE CompBits(comps[i]) + TupleBitsSum(comps, i + 1)

\* Radix::RADIX_BITS
RADIX_BITS(T) ==
    IF T = "unit" THEN 0
    ELSE IF T \in IntTypes THEN IntWidth(T)
    ELSE IF T \in WrapperTypes THEN IntWidth(Inner(T))
    ELSE IF T = "f" THEN FloatBits
    ELSE TupleBitsSum(TupleComps(T), 1)

\* radix_int_impl: (self ^ other).leading_zeros()
int_radix_similarity(T, a, b) ==
    leading_zeros(Xor(ToBits(a, IntWidth(T)), ToBits(b, IntWidth(T))), IntWidth(T))

\* radix_similarity of a component of a tuple: of the unit or of an integer
comp_radix_similarity(T, a, b) ==
    IF T = "unit" THEN 0 ELSE int_radix_similarity(T, a, b)

\* Faulty variant of tuple_radix_similarity: a component of width 0 stops the
\* walk
RECURSIVE tupleWalkStopsAtUnit(_, _, _, _, _)
tupleWalkStopsAtUnit(comps, a, b, i, similarity) ==
    IF i > Len(comps) THEN similarity
    ELSE LET s == comp_radix_similarity(comps[i], a[i], b[i])
         IN  IF s < CompBits(comps[i]) \/ CompBits(comps[i]) = 0 THEN similarity + s
             ELSE tupleWalkStopsAtUnit(comps, a, b, i + 1, similarity + s)

RECURSIVE tuple_radix_similarity(_, _, _, _, _)
\* radix_tuple_impl: the walk over the components, from component i on with
\* the similarity accumulated so far
tuple_radix_similarity(comps, a, b, i, similarity) ==
    IF i > Len(comps) THEN similarity
    ELSE LET s == comp_radix_similarity(comps[i], a[i], b[i])
         IN  IF s < CompBits(comps[i]) THEN similarity + s
             ELSE tuple_radix_similarity(comps, a, b, i + 1, similarity + s)

\* radix_float_impl: self.bits().radix_similarity(&other.bits())
float_radix_similarity(a, b) == leading_zeros(Xor(a, b), FloatBits)

\* Radix::radix_similarity
radix_similarity(T, a, b) ==
    IF T = "unit" THEN 0
    ELSE IF T \in IntTypes THEN int_radix_similarity(T, a, b)
    ELSE IF T \in WrapperTypes THEN int_radix_similarity(Inner(T), a, b)
    ELSE IF T = "f" THEN float_radix_similarity(a, b)
    ELSE tuple_radix_similarity(TupleComps(T), a, b, 1, 0)

\* Faulty variant of radix_distance: the similarity, not subtracted
radix_distanceNoSubtraction(T, a, b) == radix_similarity(T, a, b)

\* Radix::radix_distance
radix_distance(T, a, b) == RADIX_BITS(T) - radix_similarity(T, a, b)

----------------------------------------------------------------------------
\* Bucket<K, V>

BucketDefault == [max |-> None, elems |-> <<>>]

BucketIsEmpty(b) == b.elems = <<>>

\* Faulty variant of OptMax: the smaller of the two keys
OptMaxSmaller(T, a, b) ==
    IF a = None THEN b
    ELSE IF b = None THEN a
    ELSE IF Le(T, Unwrap(a), Unwrap(b)) THEN a ELSE b

\* Ord of Option<K>: None is below every Some
OptMax(T, a, b) ==
    IF a = None THEN b
    ELSE IF b = None THEN a
    ELSE IF Le(T, Unwrap(a), Unwrap(b)) THEN b ELSE a

\* Faulty variant of BucketPush: the cached max is the key pushed last
BucketPushLastKey(T, b, key, value) ==
    [max |-> Some(key), elems |-> Append(b.elems, <<key, value>>)]

\* Bucket::push
BucketPush(T, b, key, value) ==
    [max |-> OptMax(T, b.max, Some(key)), elems |-> Append(b.elems, <<key, value>>)]

\* Faulty variant of BucketPop: the last entry is returned and not removed
BucketPopKeep(b) ==
    IF b.elems = <<>> THEN [bucket |-> b, ret |-> None]
    ELSE [bucket |-> b, ret |-> Some(b.elems[Len(b.elems)])]

\* Bucket::pop: the bucket afterwards and the entry returned
BucketPop(b) ==
    IF b.elems = <<>> THEN [bucket |-> b, ret |-> None]
    ELSE [bucket |-> [b EXCEPT !.elems = SubSeq(b.elems, 1, Len(b.elems) - 1)],
          ret |-> Some(b.elems[Len(b.elems)])]

\* Faulty variant of BucketClear: the cached max is kept
BucketClearKeepMax(b) == [b EXCEPT !.elems = <<>>]

\* Bucket::clear
BucketClear(b) == [max |-> None, elems |-> <<>>]

----------------------------------------------------------------------------
\* RadixHeapMap<K, V>.  The operations are functions of the heap h, a record
\* of the fields len, top, buckets and initial plus panic, the message of the
\* panic that unwound the call ("none" when the call returned).  The key type
\* K is ktype.

NoPanic == "none"
OutOfOrderKey == "Key must be lower or equal to current top key"
ExpectNonEmpty == "Expected non-empty bucket"
ExpectOneBucket == "Expected at least one bucket"
IndexOutOfBounds == "index out of bounds"
RepushNotEmpty == "assertion failed: repush.is_empty()"
SubOverflow == "attempt to subtract with overflow"

Heap == [len |-> len, top |-> top, buckets |-> buckets, initial |-> initial,
         panic |-> NoPanic]

\* Faulty variant of NewBuckets: 0..K::RADIX_BITS, one bucket short
NewBucketsExclusive(T) == [i \in 1 .. RADIX_BITS(T) |-> BucketDefault]

\* (0..=K::RADIX_BITS).map(|_| Bucket::default()).collect()
NewBuckets(T) == [i \in 1 .. (RADIX_BITS(T) + 1) |-> BucketDefault]

new(T) == [len |-> 0, top |-> None, buckets |-> NewBuckets(T),
           initial |-> BucketDefault, panic |-> NoPanic]

new_at(T, t) == [len |-> 0, top |-> Some(t), buckets |-> NewBuckets(T),
                 initial |-> BucketDefault, panic |-> NoPanic]

\* Faulty variant of clear: the initial bucket is not cleared
clearKeepInitial(h) ==
    [h EXCEPT !.len = 0, !.top = None,
              !.buckets = [i \in DOMAIN h.buckets |-> BucketClear(h.buckets[i])]]

clear(h) ==
    [h EXCEPT !.len = 0, !.top = None, !.initial = BucketClear(@),
              !.buckets = [i \in DOMAIN h.buckets |-> BucketClear(h.buckets[i])]]

\* Faulty variant of clear_to: top is set and the entries are kept
clear_toKeepEntries(h, t) == [h EXCEPT !.top = Some(t)]

clear_to(h, t) == [clear(h) EXCEPT !.top = Some(t)]

\* Faulty variant of push_nocheck: the bucket index is the similarity
push_nocheckBySimilarity(h, key, value, t) ==
    LET d == radix_similarity(ktype, key, t)
    IN  IF d < 0 THEN [h EXCEPT !.panic = SubOverflow]
        ELSE IF d + 1 > Len(h.buckets) THEN [h EXCEPT !.panic = IndexOutOfBounds]
        ELSE [h EXCEPT !.buckets[d + 1] = BucketPush(ktype, @, key, value)]

\* buckets[d] of the code is h.buckets[d + 1]
push_nocheck(h, key, value, t) ==
    LET d == radix_distance(ktype, key, t)
    IN  IF d < 0 THEN [h EXCEPT !.panic = SubOverflow]
        ELSE IF d + 1 > Len(h.buckets) THEN [h EXCEPT !.panic = IndexOutOfBounds]
        ELSE [h EXCEPT !.buckets[d + 1] = BucketPush(ktype, @, key, value)]

RECURSIVE RepushDrainBackwards(_, _, _)
\* Faulty variant of RepushDrain: the entries are re-inserted last first
RepushDrainBackwards(h, elems, t) ==
    IF elems = <<>> \/ h.panic # NoPanic THEN h
    ELSE RepushDrainBackwards(
             push_nocheck(h, elems[Len(elems)][1], elems[Len(elems)][2], t),
             SubSeq(elems, 1, Len(elems) - 1), t)

RECURSIVE RepushDrain(_, _, _)
\* for (k, v) in repush.drain() { self.push_nocheck(k, v, top); }
RepushDrain(h, elems, t) ==
    IF elems = <<>> \/ h.panic # NoPanic THEN h
    ELSE RepushDrain(push_nocheck(h, Head(elems)[1], Head(elems)[2], t), Tail(elems), t)

\* The bucket the closure of repush_bucket selects: the initial bucket for
\* index -1, buckets[index] otherwise
SelBucket(h, index) == IF index = -1 THEN h.initial ELSE h.buckets[index + 1]
SetBucket(h, index, b) ==
    IF index = -1 THEN [h EXCEPT !.initial = b] ELSE [h EXCEPT !.buckets[index + 1] = b]

\* Faulty variant of repush_bucket: top is not set to the bucket's max
repushBucketKeepTop(h, index) ==
    LET repush == SelBucket(h, index)
        swapped == SetBucket(h, index, BucketDefault)
    IN  IF repush.max = None THEN [swapped EXCEPT !.panic = ExpectNonEmpty]
        ELSE LET t == Unwrap(repush.max)
                 moved == RepushDrain(swapped, repush.elems, t)
             IN  IF moved.panic # NoPanic THEN moved
                 ELSE IF ~BucketIsEmpty(SelBucket(moved, index))
                      THEN [SetBucket(moved, index, BucketDefault)
                               EXCEPT !.panic = RepushNotEmpty]
                      ELSE SetBucket(moved, index, BucketDefault)

repush_bucket(h, index) ==
    LET repush == SelBucket(h, index)
        swapped == SetBucket(h, index, BucketDefault)
    IN  IF repush.max = None THEN [swapped EXCEPT !.panic = ExpectNonEmpty]
        ELSE LET t == Unwrap(repush.max)
                 moved == RepushDrain([swapped EXCEPT !.top = Some(t)], repush.elems, t)
             IN  IF moved.panic # NoPanic THEN moved
                 ELSE IF ~BucketIsEmpty(SelBucket(moved, index))
                      THEN [SetBucket(moved, index, BucketDefault)
                               EXCEPT !.panic = RepushNotEmpty]
                      ELSE SetBucket(moved, index, BucketDefault)

\* Faulty variant of push: the key must be larger than or equal to top
pushAtLeastTop(h, key, value) ==
    IF h.top # None
    THEN IF ~Le(ktype, Unwrap(h.top), key) THEN [h EXCEPT !.panic = OutOfOrderKey]
         ELSE LET p == push_nocheck(h, key, value, Unwrap(h.top))
              IN  IF p.panic # NoPanic THEN p ELSE [p EXCEPT !.len = @ + 1]
    ELSE [h EXCEPT !.initial = BucketPush(ktype, @, key, value), !.len = @ + 1]

\* Faulty variant of push: a key equal to top is rejected
pushBelowTop(h, key, value) ==
    IF h.top # None
    THEN IF ~Lt(ktype, key, Unwrap(h.top)) THEN [h EXCEPT !.panic = OutOfOrderKey]
         ELSE LET p == push_nocheck(h, key, value, Unwrap(h.top))
              IN  IF p.panic # NoPanic THEN p ELSE [p EXCEPT !.len = @ + 1]
    ELSE [h EXCEPT !.initial = BucketPush(ktype, @, key, value), !.len = @ + 1]

\* Faulty variant of push: the first key pushed becomes top
pushFirstIsTop(h, key, value) ==
    IF h.top # None
    THEN IF ~Le(ktype, key, Unwrap(h.top)) THEN [h EXCEPT !.panic = OutOfOrderKey]
         ELSE LET p == push_nocheck(h, key, value, Unwrap(h.top))
              IN  IF p.panic # NoPanic THEN p ELSE [p EXCEPT !.len = @ + 1]
    ELSE LET p == push_nocheck([h EXCEPT !.top = Some(key)], key, value, key)
         IN  IF p.panic # NoPanic THEN p ELSE [p EXCEPT !.len = @ + 1]

push(h, key, value) ==
    IF h.top # None
    THEN IF ~Le(ktype, key, Unwrap(h.top)) THEN [h EXCEPT !.panic = OutOfOrderKey]
         ELSE LET p == push_nocheck(h, key, value, Unwrap(h.top))
              IN  IF p.panic # NoPanic THEN p ELSE [p EXCEPT !.len = @ + 1]
    ELSE [h EXCEPT !.initial = BucketPush(ktype, @, key, value), !.len = @ + 1]

\* Faulty variant of NonEmptyIdx: buckets[0] is not looked at
NonEmptyIdxFromOne(h) ==
    {i \in 1 .. (Len(h.buckets) - 1) : ~BucketIsEmpty(h.buckets[i + 1])}

\* The indices of the non-empty buckets
NonEmptyIdx(h) == {i \in 0 .. (Len(h.buckets) - 1) : ~BucketIsEmpty(h.buckets[i + 1])}
\* Faulty variant of MinOf: the last index, not the first
MaxOf(S) == CHOOSE x \in S : \A y \in S : y <= x
\* .find(): the first index
MinOf(S) == CHOOSE x \in S : \A y \in S : x <= y

constrain(h) ==
    IF h.top # None
    THEN IF NonEmptyIdx(h) # {}
         THEN LET index == MinOf(NonEmptyIdx(h))
              IN  IF index # 0 THEN repush_bucket(h, index) ELSE h
         ELSE h
    ELSE IF ~BucketIsEmpty(h.initial) THEN repush_bucket(h, -1)
    ELSE h

\* Faulty variant of pop: len is decremented whether or not an entry was popped
popAlwaysDecrement(h) ==
    LET c == constrain(h)
    IN  IF c.panic # NoPanic THEN [h |-> c, ret |-> None]
        ELSE IF Len(c.buckets) = 0
             THEN [h |-> [c EXCEPT !.panic = ExpectOneBucket], ret |-> None]
        ELSE LET p == BucketPop(c.buckets[1])
                 c1 == [c EXCEPT !.buckets[1] = p.bucket]
             IN  IF c1.len = 0
                 THEN [h |-> [c1 EXCEPT !.panic = SubOverflow], ret |-> None]
                 ELSE [h |-> [c1 EXCEPT !.len = @ - 1], ret |-> p.ret]

\* pop: the heap afterwards and the entry returned
pop(h) ==
    LET c == constrain(h)
    IN  IF c.panic # NoPanic THEN [h |-> c, ret |-> None]
        ELSE IF Len(c.buckets) = 0
             THEN [h |-> [c EXCEPT !.panic = ExpectOneBucket], ret |-> None]
        ELSE LET p == BucketPop(c.buckets[1])
                 c1 == [c EXCEPT !.buckets[1] = p.bucket]
             IN  IF p.ret = None THEN [h |-> c1, ret |-> None]
                 ELSE IF c1.len = 0
                      THEN [h |-> [c1 EXCEPT !.panic = SubOverflow], ret |-> None]
                      ELSE [h |-> [c1 EXCEPT !.len = @ - 1], ret |-> p.ret]

is_empty(h) == h.len = 0

\* Faulty variant of peek: constrain is not called
peekNoConstrain(h) ==
    [h |-> h,
     ret |-> IF h.buckets[1].elems = <<>> THEN None
             ELSE Some(h.buckets[1].elems[Len(h.buckets[1].elems)])]

\* peek, as the specification describes it: constrain first if buckets[0] is
\* empty, then the last element of buckets[0], not removed
peek(h) ==
    LET c == IF BucketIsEmpty(h.buckets[1]) THEN constrain(h) ELSE h
    IN  [h |-> c,
         ret |-> IF c.panic # NoPanic \/ c.buckets[1].elems = <<>> THEN None
                 ELSE Some(c.buckets[1].elems[Len(c.buckets[1].elems)])]

\* Faulty variant of iter: the walk starts at buckets, without initial
iterSkipsInitial(h) ==
    [cur_bucket |-> <<>>, buckets |-> h.buckets, size |-> h.len, panic |-> NoPanic]

\* RadixHeapMap::iter: the iterator over initial and then the buckets, with
\* the number of items left
iter(h) ==
    [cur_bucket |-> h.initial.elems, buckets |-> h.buckets, size |-> h.len,
     panic |-> NoPanic]

\* IntoIterator::into_iter: the same walk, owning the entries
into_iter(h) ==
    [cur_bucket |-> h.initial.elems, buckets |-> h.buckets, size |-> h.len,
     panic |-> NoPanic]

\* Iter::next, IntoIter::next: the next item of the current bucket, moving on
\* to the next bucket when it is exhausted; size -= 1 is of usize
RECURSIVE iter_next(_)
iter_next(it) ==
    IF it.cur_bucket # <<>>
    THEN [it |-> [it EXCEPT !.cur_bucket = Tail(it.cur_bucket),
                            !.size = IF it.size = 0 THEN 0 ELSE it.size - 1,
                            !.panic = IF it.size = 0 THEN SubOverflow ELSE NoPanic],
          ret |-> Some(Head(it.cur_bucket))]
    ELSE IF it.buckets = <<>> THEN [it |-> it, ret |-> None]
    ELSE iter_next([it EXCEPT !.cur_bucket = Head(it.buckets).elems,
                              !.buckets = Tail(it.buckets)])

\* The items that the iterator yields until next returns None or panics,
\* after the items acc
RECURSIVE collect(_, _)
collect(it, acc) ==
    LET r == iter_next(it)
    IN  IF r.it.panic # NoPanic THEN [items |-> acc, panic |-> r.it.panic]
        ELSE IF r.ret = None THEN [items |-> acc, panic |-> NoPanic]
        ELSE collect(r.it, Append(acc, Unwrap(r.ret)))

----------------------------------------------------------------------------
\* The state machine

\* Where the entry of value v is in the heap h: the index of its bucket in
\* buckets, RADIX_BITS + 1 for the initial bucket, -1 when it is not stored
PosIn(h, v) ==
    IF \E e \in {h.initial.elems[j] : j \in DOMAIN h.initial.elems} : e[2] = v
    THEN Len(h.buckets)
    ELSE IF \E i \in DOMAIN h.buckets : \E j \in DOMAIN h.buckets[i].elems :
                h.buckets[i].elems[j][2] = v
    THEN (CHOOSE i \in DOMAIN h.buckets : \E j \in DOMAIN h.buckets[i].elems :
              h.buckets[i].elems[j][2] = v) - 1
    ELSE 0 - 1

\* The number of moves of an entry that had moved n times and was at p
\* before the call and is at q after it: an entry that changed its bucket has
\* moved once more, and so has an entry that was popped from another bucket
\* than buckets[0], by way of buckets[0]; an entry not stored before the call
\* has not moved
MoveCount(n, p, q) ==
    IF p = 0 - 1 THEN 0
    ELSE IF q = 0 - 1 THEN (IF p = 0 THEN n ELSE n + 1)
    ELSE IF q # p THEN n + 1
    ELSE n

\* moves after a call that leaves the heap as h
MovesAfter(h) ==
    IF moves = None THEN None
    ELSE [v \in DOMAIN moves |-> MoveCount(moves[v], PosIn(Heap, v), PosIn(h, v))]

\* moves after clear and clear_to
MovesReset == IF moves = None THEN None ELSE [v \in DOMAIN moves |-> 0]

\* The fields of the heap after a call
Store(h) ==
    /\ len' = h.len
    /\ top' = h.top
    /\ buckets' = h.buckets
    /\ initial' = h.initial

\* The record of a call: its name, its key argument, the entry it returned, the
\* panic that unwound it, and len and top as they were before it
Call(op, key, ret, panic) ==
    [op |-> op, key |-> key, ret |-> ret, panic |-> panic,
     was |-> [len |-> len, top |-> top]]

\* The record of the constructor call
Constructed(op, key) ==
    [op |-> op, key |-> key, ret |-> None, panic |-> NoPanic,
     was |-> [len |-> 0, top |-> None]]

\* The key types of the heaps of Spec
HeapKeyTypes == {"unit", "u", "i"}

Init ==
    /\ ktype \in HeapKeyTypes
    /\ \E h \in {new(ktype)} \cup {new_at(ktype, t) : t \in Keys(ktype)} :
          /\ len = h.len
          /\ top = h.top
          /\ buckets = h.buckets
          /\ initial = h.initial
          /\ last = Constructed(IF h.top = None THEN "new" ELSE "new_at", h.top)
          /\ phase = IF h.top = None THEN "fill" ELSE "mixed"
    /\ pushes = 0
    /\ pops = 0
    /\ prevPop = None
    /\ sortIn = <<>>
    /\ sortOut = <<>>
    /\ moves = None

\* heap.push(key, pushes + 1)
Push(key) ==
    /\ pushes < MaxPush
    /\ \E h \in {push(Heap, key, pushes + 1)} : LET
           ok == h.panic = NoPanic
       IN  /\ Store(h)
           /\ moves' = MovesAfter(h)
           /\ last' = Call("push", Some(key), None, h.panic)
           /\ pushes' = IF ok THEN pushes + 1 ELSE pushes
           /\ phase' = IF phase = "fill" THEN "fill" ELSE "mixed"
           /\ sortIn' = IF phase = "fill" /\ ok THEN Append(sortIn, key)
                        ELSE IF phase = "fill" THEN sortIn ELSE <<>>
           /\ sortOut' = <<>>
    /\ UNCHANGED <<ktype, pops, prevPop>>

\* heap.pop()
Pop ==
    /\ \E r \in {pop(Heap)} : LET
           draining == (phase = "fill" /\ len > 0) \/ phase = "drain"
       IN  /\ Store(r.h)
           /\ moves' = MovesAfter(r.h)
           /\ last' = Call("pop", None, r.ret, r.h.panic)
           /\ pops' = IF r.ret # None THEN pops + 1 ELSE pops
           /\ prevPop' = IF r.ret # None THEN Some(Unwrap(r.ret)[1]) ELSE prevPop
           /\ phase' = IF draining THEN (IF r.ret # None THEN "drain" ELSE "done")
                       ELSE phase
           /\ sortOut' = IF draining /\ r.ret # None
                         THEN Append(sortOut, Unwrap(r.ret)[1]) ELSE sortOut
    /\ UNCHANGED <<ktype, pushes, sortIn>>

\* heap.constrain()
Constrain ==
    /\ \E h \in {constrain(Heap)} :
           /\ Store(h)
           /\ moves' = MovesAfter(h)
           /\ last' = Call("constrain", None, None, h.panic)
    /\ phase' = IF phase = "fill" /\ len = 0 THEN "fill" ELSE "mixed"
    /\ sortIn' = IF phase = "fill" /\ len = 0 THEN sortIn ELSE <<>>
    /\ sortOut' = IF phase = "fill" /\ len = 0 THEN sortOut ELSE <<>>
    /\ UNCHANGED <<ktype, pushes, pops, prevPop>>

\* heap.clear()
Clear ==
    /\ Store(clear(Heap))
    /\ moves' = MovesReset
    /\ last' = Call("clear", None, None, NoPanic)
    /\ phase' = "fill"
    /\ pushes' = 0
    /\ pops' = 0
    /\ prevPop' = None
    /\ sortIn' = <<>>
    /\ sortOut' = <<>>
    /\ UNCHANGED ktype

\* heap.clear_to(t)
ClearTo(t) ==
    /\ Store(clear_to(Heap, t))
    /\ moves' = MovesReset
    /\ last' = Call("clear_to", Some(t), None, NoPanic)
    /\ phase' = "mixed"
    /\ pushes' = 0
    /\ pops' = 0
    /\ prevPop' = None
    /\ sortIn' = <<>>
    /\ sortOut' = <<>>
    /\ UNCHANGED ktype

Next ==
    \/ \E key \in Keys(ktype) : Push(key)
    \/ Pop
    \/ Constrain
    \/ Clear
    \/ \E t \in Keys(ktype) : ClearTo(t)

Spec == Init /\ [][Next]_vars

----------------------------------------------------------------------------
\* tests::sort: collect the keys into a new heap, then pop until None

SortInit ==
    /\ ktype \in KeyTypes
    /\ len = new(ktype).len
    /\ top = new(ktype).top
    /\ buckets = new(ktype).buckets
    /\ initial = new(ktype).initial
    /\ last = Constructed("new", None)
    /\ phase = "fill"
    /\ pushes = 0
    /\ pops = 0
    /\ prevPop = None
    /\ sortIn = <<>>
    /\ sortOut = <<>>
    /\ moves = None

SortPush(key) == phase = "fill" /\ Push(key)

SortPop == phase \in {"fill", "drain"} /\ len + Len(sortIn) > 0 /\ Pop

SortNext ==
    \/ \E key \in Keys(ktype) : SortPush(key)
    \/ SortPop

SortSpec == SortInit /\ [][SortNext]_vars

----------------------------------------------------------------------------
\* Vocabulary of the properties

\* The entries of a sequence of entries, as a set (the values of a heap's
\* entries are distinct: they are the ordinals of the pushes)
\* Heaps keyed by Reverse<u> and Reverse<i> (tests::rev_push_pop): the key
\* Reverse(k) is written as its inner key k
RevKeyTypes == {"rev(u)", "rev(i)"}

RevInit ==
    /\ ktype \in RevKeyTypes
    /\ \E h \in {new(ktype)} \cup {new_at(ktype, t) : t \in Keys(ktype)} :
          /\ len = h.len
          /\ top = h.top
          /\ buckets = h.buckets
          /\ initial = h.initial
          /\ last = Constructed(IF h.top = None THEN "new" ELSE "new_at", h.top)
          /\ phase = IF h.top = None THEN "fill" ELSE "mixed"
    /\ pushes = 0
    /\ pops = 0
    /\ prevPop = None
    /\ sortIn = <<>>
    /\ sortOut = <<>>
    /\ moves = None

RevSpec == RevInit /\ [][Next]_vars

\* Heaps keyed by non-NaN floats, filled and then drained (tests::sort_float)
FloatSortInit ==
    /\ ktype = "f"
    /\ \E h \in {new(ktype)} :
          /\ len = h.len
          /\ top = h.top
          /\ buckets = h.buckets
          /\ initial = h.initial
    /\ last = Constructed("new", None)
    /\ phase = "fill"
    /\ pushes = 0
    /\ pops = 0
    /\ prevPop = None
    /\ sortIn = <<>>
    /\ sortOut = <<>>
    /\ moves = None

FloatSortSpec == FloatSortInit /\ [][SortNext]_vars

\* The heap operations and the iterators, on heaps keyed by the unsigned
\* integer (tests::iter_yeilds_all_elements, tests::into_iter)
IterInit ==
    /\ ktype = "u"
    /\ \E h \in {new(ktype)} \cup {new_at(ktype, t) : t \in Keys(ktype)} :
          /\ len = h.len
          /\ top = h.top
          /\ buckets = h.buckets
          /\ initial = h.initial
          /\ last = Constructed(IF h.top = None THEN "new" ELSE "new_at", h.top)
          /\ phase = IF h.top = None THEN "fill" ELSE "mixed"
    /\ pushes = 0
    /\ pops = 0
    /\ prevPop = None
    /\ sortIn = <<>>
    /\ sortOut = <<>>
    /\ moves = None

\* heap.iter().collect(): last.ret holds the sequence of the items yielded
Iterate ==
    /\ \E c \in {collect(iter(Heap), <<>>)} :
           last' = Call("iter", None, Some(c.items), c.panic)
    /\ UNCHANGED <<ktype, len, top, buckets, initial, pushes, pops, prevPop,
                   phase, sortIn, sortOut, moves>>

\* heap.into_iter().collect(): the heap is moved into the iterator
IntoIterate ==
    /\ \E c \in {collect(into_iter(Heap), <<>>)} :
           last' = Call("into_iter", None, Some(c.items), c.panic)
    /\ UNCHANGED <<ktype, len, top, buckets, initial, pushes, pops, prevPop,
                   phase, sortIn, sortOut, moves>>

IterNext ==
    \/ last.op # "into_iter" /\ Next
    \/ last.op # "into_iter" /\ Iterate
    \/ last.op # "into_iter" /\ IntoIterate

IterSpec == IterInit /\ [][IterNext]_vars

\* The heap operations and peek, on heaps keyed by the signed integer
PeekInit ==
    /\ ktype = "i"
    /\ \E h \in {new(ktype)} \cup {new_at(ktype, t) : t \in Keys(ktype)} :
          /\ len = h.len
          /\ top = h.top
          /\ buckets = h.buckets
          /\ initial = h.initial
          /\ last = Constructed(IF h.top = None THEN "new" ELSE "new_at", h.top)
          /\ phase = IF h.top = None THEN "fill" ELSE "mixed"
    /\ pushes = 0
    /\ pops = 0
    /\ prevPop = None
    /\ sortIn = <<>>
    /\ sortOut = <<>>
    /\ moves = None

\* heap.peek()
Peek ==
    /\ \E r \in {peek(Heap)} :
           /\ Store(r.h)
           /\ moves' = MovesAfter(r.h)
           /\ last' = Call("peek", None, r.ret, r.h.panic)
    /\ phase' = IF phase = "fill" /\ len = 0 THEN "fill" ELSE "mixed"
    /\ sortIn' = IF phase = "fill" /\ len = 0 THEN sortIn ELSE <<>>
    /\ sortOut' = IF phase = "fill" /\ len = 0 THEN sortOut ELSE <<>>
    /\ UNCHANGED <<ktype, pushes, pops, prevPop>>

PeekNext ==
    \/ Next
    \/ Peek

PeekSpec == PeekInit /\ [][PeekNext]_vars

\* The heap operations on heaps keyed by the unsigned integer, with the moves
\* of every entry counted
MoveInit ==
    /\ ktype = "u"
    /\ \E h \in {new(ktype)} \cup {new_at(ktype, t) : t \in Keys(ktype)} :
          /\ len = h.len
          /\ top = h.top
          /\ buckets = h.buckets
          /\ initial = h.initial
          /\ last = Constructed(IF h.top = None THEN "new" ELSE "new_at", h.top)
          /\ phase = IF h.top = None THEN "fill" ELSE "mixed"
    /\ pushes = 0
    /\ pops = 0
    /\ prevPop = None
    /\ sortIn = <<>>
    /\ sortOut = <<>>
    /\ moves = [v \in 1 .. MaxPush |-> 0]

\* The operations between construction and clear: the lifetime of the entries
MoveNext ==
    \/ \E key \in Keys(ktype) : Push(key)
    \/ Pop
    \/ Constrain

MoveSpec == MoveInit /\ [][MoveNext]_vars

\* The calls of the Radix trait on the keys of every key type but the floats:
\* the heap stays as constructed, last records the call and its result
RadixKeyTypes ==
    {"unit", "u", "i", "u32", "(u,i)", "(u,(),i)", "rev(u)", "rev(i)", "wrap(u)"}

\* The u32 keys of tests::radix_dist
RadixDistSample == {0, 1, 2, 3, 4}

RadixInputs(T) == IF T = "u32" THEN RadixDistSample ELSE Keys(T)

RadixInit ==
    /\ ktype \in RadixKeyTypes
    /\ \E h \in {new(ktype)} :
          /\ len = h.len
          /\ top = h.top
          /\ buckets = h.buckets
          /\ initial = h.initial
    /\ last = Constructed("new", None)
    /\ phase = "fill"
    /\ pushes = 0
    /\ pops = 0
    /\ prevPop = None
    /\ sortIn = <<>>
    /\ sortOut = <<>>
    /\ moves = None

\* a.radix_similarity(&b)
RadixSimilarity(a, b) ==
    /\ last' = Call("radix_similarity", Some(<<a, b>>),
                    Some(radix_similarity(ktype, a, b)), NoPanic)
    /\ UNCHANGED <<ktype, len, top, buckets, initial, pushes, pops, prevPop,
                   phase, sortIn, sortOut, moves>>

\* a.radix_distance(&b): the subtraction is of u32 and overflows below 0
RadixDistance(a, b) ==
    /\ \E d \in {radix_distance(ktype, a, b)} :
           last' = Call("radix_distance", Some(<<a, b>>),
                        IF d < 0 THEN None ELSE Some(d),
                        IF d < 0 THEN SubOverflow ELSE NoPanic)
    /\ UNCHANGED <<ktype, len, top, buckets, initial, pushes, pops, prevPop,
                   phase, sortIn, sortOut, moves>>

RadixNext ==
    \/ \E a, b \in RadixInputs(ktype) : RadixSimilarity(a, b)
    \/ \E a, b \in RadixInputs(ktype) : RadixDistance(a, b)

RadixSpec == RadixInit /\ [][RadixNext]_vars

----------------------------------------------------------------------------
\* Vocabulary of the properties

Range(seq) == {seq[i] : i \in DOMAIN seq}

\* The entries stored in the heap, in the initial bucket and in every bucket
Stored == Range(initial.elems) \cup UNION {Range(buckets[i].elems) : i \in DOMAIN buckets}

RECURSIVE SumLen(_, _)
SumLen(bs, i) == IF i > Len(bs) THEN 0 ELSE Len(bs[i].elems) + SumLen(bs, i + 1)

\* The number of entries held in the initial bucket plus all buckets
StoredCount == Len(initial.elems) + SumLen(buckets, 1)

\* The number of occurrences of the key k in the sequence of keys seq
Count(seq, k) == Cardinality({i \in DOMAIN seq : seq[i] = k})

\* The last call was a pop that returned Some((k, v))
Popped == last.op = "pop" /\ last.ret # None
PoppedKey == Unwrap(last.ret)[1]
PoppedValue == Unwrap(last.ret)[2]

----------------------------------------------------------------------------
\* C1: keys pushed in any order onto a heap with unset top and then popped
\* until pop returns None come out as the same multiset of keys, in
\* non-increasing key order.
SortEquivalence ==
    phase = "done" =>
        /\ Len(sortOut) = Len(sortIn)
        /\ \A k \in Keys(ktype) : Count(sortOut, k) = Count(sortIn, k)
        /\ \A i \in 1 .. (Len(sortOut) - 1) : Le(ktype, sortOut[i + 1], sortOut[i])

\* Three tuple keys, pushed neither in ascending nor in descending order, two
\* of them equal in the first component and one negative in the second, have
\* been popped until None
SortEquivalenceWitness ==
    /\ phase = "done"
    /\ ktype = "(u,i)"
    /\ Len(sortIn) = 3
    /\ Lt(ktype, sortIn[1], sortIn[2])
    /\ Lt(ktype, sortIn[3], sortIn[2])
    /\ sortIn[1][1] = sortIn[2][1]
    /\ sortIn[1][2] < 0

\* C2: a pop on a heap with len() > 0 returns an entry whose key is the
\* maximum of all stored keys and removes exactly that entry; a pop returns
\* None only when len() = 0.
PopReturnsMax ==
    [][last'.op = "pop" =>
        IF len > 0
        THEN /\ last'.ret # None
             /\ Unwrap(last'.ret) \in Stored
             /\ \A e \in Stored : Le(ktype, e[1], Unwrap(last'.ret)[1])
             /\ Stored' = Stored \ {Unwrap(last'.ret)}
             /\ StoredCount' = StoredCount - 1
        ELSE last'.ret = None]_vars

\* A pop on a heap of three entries, with top set before, returned an entry
\* and left two entries with smaller keys in different buckets
PopReturnsMaxWitness ==
    /\ Popped
    /\ last.was.len = 3
    /\ last.was.top # None
    /\ len = 2
    /\ \A e \in Stored : Lt(ktype, e[1], PoppedKey)
    /\ \E i, j \in DOMAIN buckets : i # j /\ buckets[i].elems # <<>> /\ buckets[j].elems # <<>>

\* C3: with top = Some(t), a push is accepted exactly when key <= t; a
\* rejected push panics with the out-of-order message and leaves len, top and
\* the stored entries as they were.
PushCeiling ==
    [][(last'.op = "push" /\ top # None) =>
        /\ (last'.panic = NoPanic) <=> Le(ktype, Unwrap(last'.key), Unwrap(top))
        /\ last'.panic = NoPanic => len' = len + 1 /\ top' = top
        /\ last'.panic # NoPanic =>
              /\ last'.panic = OutOfOrderKey
              /\ UNCHANGED <<len, top, buckets, initial>>]_vars

\* After a pop lowered top to k, a push of a key above k was rejected, and the
\* heap still holds an entry
PushCeilingWitness ==
    /\ last.op = "push"
    /\ last.panic = OutOfOrderKey
    /\ prevPop = top
    /\ top # None
    /\ Lt(ktype, Unwrap(top), Unwrap(last.key))
    /\ len > 0

\* C4: among the stored entries with equal keys, pop returns the one pushed
\* last.
TieBreakLifo ==
    [][(last'.op = "pop" /\ last'.ret # None) =>
        \A e \in Stored :
            e[1] = Unwrap(last'.ret)[1] => e[2] <= Unwrap(last'.ret)[2]]_vars

\* A pop returned the later of two entries with equal keys, which it moved
\* to buckets[0], after the entry pushed after them, with a larger key, had
\* been popped
TieBreakLifoWitness ==
    /\ Popped
    /\ pops = 2
    /\ pushes = 3
    /\ PoppedValue = 2
    /\ Stored = {<<PoppedKey, 1>>}
    /\ last.was.top # None
    /\ Lt(ktype, PoppedKey, Unwrap(last.was.top))

\* C5: len() is the number of accepted pushes minus the number of pops that
\* returned Some, and the number of entries held; is_empty() tells whether any
\* entry is held; the decrement in pop never underflows.
CountConsistency ==
    /\ len = pushes - pops
    /\ len = StoredCount
    /\ is_empty(Heap) <=> (StoredCount = 0)
    /\ last.panic # SubOverflow

\* Three pushes and a pop, with entries left
CountConsistencyWitness ==
    /\ pushes = 3
    /\ pops = 1
    /\ len = 2
    /\ ~is_empty(Heap)

\* C6: once top is Some it stays Some and never increases under push, pop and
\* constrain; clear sets it to None and clear_to(t) to Some(t); the keys
\* returned by successive pops never increase.
TopMonotone ==
    [][/\ (top # None /\ last'.op \in {"push", "pop", "constrain"}) =>
            top' # None /\ Le(ktype, Unwrap(top'), Unwrap(top))
       /\ (top # None /\ top' = None) => last'.op = "clear"
       /\ (top # None /\ top' # None /\ ~Le(ktype, Unwrap(top'), Unwrap(top))) =>
            last'.op = "clear_to"
       /\ (last'.op = "pop" /\ last'.ret # None /\ prevPop # None) =>
            Le(ktype, Unwrap(last'.ret)[1], Unwrap(prevPop))]_vars

\* A constrain lowered top, which was the key of the latest pop
TopMonotoneWitness ==
    /\ last.op = "constrain"
    /\ last.was.top # None
    /\ prevPop = last.was.top
    /\ top # None
    /\ Lt(ktype, Unwrap(top), Unwrap(last.was.top))

\* C7: when pop returns Some((k, v)), top() is Some(k) afterwards.
TopIsPoppedKey == Popped => top = Some(PoppedKey)

\* A pop returned a key below the top that an earlier pop had set, with an
\* entry left
TopIsPoppedKeyWitness ==
    /\ Popped
    /\ pops = 2
    /\ len = 1
    /\ last.was.top # None
    /\ Lt(ktype, PoppedKey, Unwrap(last.was.top))

\* C8: on a heap created by new() or reset by clear(), until a pop or a
\* constrain runs on the non-empty heap, top() is None and every push is
\* accepted and appended to the initial bucket.
FreshAcceptsAll ==
    [][/\ phase = "fill" => top = None
       /\ (phase = "fill" /\ last'.op = "push") =>
            /\ last'.panic = NoPanic
            /\ initial'.elems = Append(initial.elems, <<Unwrap(last'.key), pushes + 1>>)
            /\ buckets' = buckets
            /\ top' = None
            /\ phase' = "fill"]_vars

\* Three keys pushed in ascending order after a clear
FreshAcceptsAllWitness ==
    /\ phase = "fill"
    /\ last.op = "push"
    /\ Len(initial.elems) = 3
    /\ Lt(ktype, initial.elems[1][1], initial.elems[2][1])
    /\ Lt(ktype, initial.elems[2][1], initial.elems[3][1])

\* C9: clear() leaves len() = 0, top() = None and every bucket empty, so the
\* next pop returns None and the next push is accepted whatever its key;
\* clear_to(t) does the same with top() = Some(t), so the next push is accepted
\* exactly when its key is <= t.
ClearResets ==
    [][/\ last'.op \in {"clear", "clear_to"} =>
            /\ len' = 0
            /\ top' = (IF last'.op = "clear" THEN None ELSE last'.key)
            /\ Stored' = {}
            /\ initial' = BucketDefault
            /\ \A i \in DOMAIN buckets' : buckets'[i] = BucketDefault
            /\ DOMAIN buckets' = DOMAIN buckets
       /\ (last.op \in {"clear", "clear_to"} /\ last'.op = "pop") => last'.ret = None
       /\ (last.op = "clear" /\ last'.op = "push") => last'.panic = NoPanic
       /\ (last.op = "clear_to" /\ last'.op = "push") =>
            ((last'.panic = NoPanic) <=> Le(ktype, Unwrap(last'.key), Unwrap(last.key)))]_vars

\* clear_to(t) on a heap of three entries whose top was below t
ClearResetsWitness ==
    /\ last.op = "clear_to"
    /\ last.was.len = 3
    /\ last.was.top # None
    /\ Lt(ktype, Unwrap(last.was.top), Unwrap(last.key))

\* C10: pop on a heap with len() = 0 returns None, does not panic and leaves
\* len, top and the buckets as they were.
PopEmpty ==
    [][(last'.op = "pop" /\ len = 0) =>
        /\ last'.ret = None
        /\ last'.panic = NoPanic
        /\ UNCHANGED <<len, top, buckets, initial>>]_vars

\* A pop returned None on a heap that pops had emptied, with top set
PopEmptyWitness ==
    /\ last.op = "pop"
    /\ last.ret = None
    /\ last.was.len = 0
    /\ pops = 2
    /\ top # None

\* C11: constrain() on a heap with len() > 0 leaves top() = Some(m), m the
\* maximum stored key, and buckets[0] non-empty; it never changes len nor the
\* stored entries; on an empty heap it changes nothing, and a constrain right
\* after a constrain changes nothing.
ConstrainSetsTop ==
    [][last'.op = "constrain" =>
        /\ last'.panic = NoPanic
        /\ len' = len
        /\ Stored' = Stored
        /\ StoredCount' = StoredCount
        /\ len > 0 =>
              /\ top' # None
              /\ \A e \in Stored : Le(ktype, e[1], Unwrap(top'))
              /\ \E e \in Stored : e[1] = Unwrap(top')
              /\ buckets'[1].elems # <<>>
        /\ len = 0 => UNCHANGED <<len, top, buckets, initial>>
        /\ last.op = "constrain" => UNCHANGED <<len, top, buckets, initial>>]_vars

\* A constrain on a heap of three entries in two buckets, none in buckets[0],
\* lowered top and moved entries into buckets[0]
ConstrainSetsTopWitness ==
    /\ last.op = "constrain"
    /\ len = 3
    /\ last.was.top # None
    /\ Lt(ktype, Unwrap(top), Unwrap(last.was.top))
    /\ buckets[1].elems # <<>>
    /\ \E i \in DOMAIN buckets : i > 1 /\ buckets[i].elems # <<>>

----------------------------------------------------------------------------
\* The Radix trait

\* Bit i (0 the least significant) of the natural x
RECURSIVE Bit(_, _)
Bit(x, i) == IF i = 0 THEN x % 2 ELSE Bit(x \div 2, i - 1)

\* The keys a and b of the integer type T differ in every bit
IntComplementary(T, a, b) ==
    \A i \in 0 .. (IntWidth(T) - 1) :
        Bit(ToBits(a, IntWidth(T)), i) # Bit(ToBits(b, IntWidth(T)), i)

\* The keys a and b of the key type T are bitwise complementary
Complementary(T, a, b) ==
    IF T = "unit" THEN TRUE
    ELSE IF T \in IntTypes THEN IntComplementary(T, a, b)
    ELSE IF T \in WrapperTypes THEN IntComplementary(Inner(T), a, b)
    ELSE \A i \in DOMAIN TupleComps(T) :
             TupleComps(T)[i] = "unit" \/ IntComplementary(TupleComps(T)[i], a[i], b[i])

\* The arguments and the result of the call of the Radix trait in last
RadixA == Unwrap(last.key)[1]
RadixB == Unwrap(last.key)[2]
RadixRet == Unwrap(last.ret)

\* C12: for every provided key type (integers, the unit, tuples, Reverse and
\* Wrapping) and all keys a, b, radix_distance(a, b) does not underflow and is
\* RADIX_BITS - radix_similarity(a, b); it is 0 when a == b, it equals
\* radix_distance(b, a), and it is the width RADIX_BITS when a and b are
\* bitwise complementary.
RadixLaws ==
    /\ last.op = "radix_similarity" =>
          /\ last.panic = NoPanic
          /\ RadixRet \in 0 .. RADIX_BITS(ktype)
    /\ last.op = "radix_distance" =>
          /\ last.panic = NoPanic
          /\ last.ret # None
          /\ RadixRet \in 0 .. RADIX_BITS(ktype)
          /\ RadixRet + radix_similarity(ktype, RadixA, RadixB) = RADIX_BITS(ktype)
          /\ RadixRet = radix_distance(ktype, RadixB, RadixA)
          /\ RadixA = RadixB => RadixRet = 0
          /\ (Le(ktype, RadixA, RadixB) /\ Le(ktype, RadixB, RadixA)) => RadixRet = 0
          /\ Complementary(ktype, RadixA, RadixB) => RadixRet = RADIX_BITS(ktype)

RadixLawsWitness ==
    /\ last.op = "radix_distance"
    /\ ktype = "rev(i)"
    /\ RadixA < 0 /\ RadixB > 0
    /\ Complementary(ktype, RadixA, RadixB)
    /\ last.ret = Some(Bits)

\* The number of leading bits that the w-bit patterns x and y have in common
CommonLeadingBits(x, y, w) ==
    Cardinality({n \in 1 .. w : \A i \in (w - n) .. (w - 1) : Bit(x, i) = Bit(y, i)})

\* The indices of the bits in which the w-bit patterns x and y differ
DifferingBits(x, y, w) == {i \in 0 .. (w - 1) : Bit(x, i) # Bit(y, i)}

\* C13: for w-bit integers a and b, radix_similarity(a, b) is the number of
\* leading bits they have in common (the leading zeros of a XOR b), and
\* radix_distance(a, b) is w minus that: one plus the index of the highest bit
\* in which they differ, and 0 when they are equal, which is exactly when the
\* similarity is RADIX_BITS; for u32, distance(4,2) = 3, distance(3,2) = 1,
\* distance(2,2) = 0, distance(1,2) = 2, distance(0,2) = 2.
IntSimilarityNumerics ==
    ktype \in IntTypes => LET
        w == IntWidth(ktype)
        x == ToBits(RadixA, w)
        y == ToBits(RadixB, w)
    IN  /\ last.op = "radix_similarity" =>
              /\ RadixRet = CommonLeadingBits(x, y, w)
              /\ RadixRet = RADIX_BITS(ktype) <=> RadixA = RadixB
        /\ last.op = "radix_distance" =>
              /\ last.ret # None
              /\ RadixRet = w - CommonLeadingBits(x, y, w)
              /\ RadixA = RadixB => RadixRet = 0
              /\ RadixA # RadixB => RadixRet = 1 + MaxOf(DifferingBits(x, y, w))
              /\ RadixRet = 0 <=> radix_similarity(ktype, RadixA, RadixB) = RADIX_BITS(ktype)
              /\ (ktype = "u32" /\ RadixB = 2) =>
                    RadixRet = <<2, 2, 0, 1, 3>>[RadixA + 1]

IntSimilarityNumericsWitness ==
    /\ ktype = "u32"
    /\ last.op = "radix_distance"
    /\ RadixA = 4 /\ RadixB = 2
    /\ last.ret = Some(3)

\* The number of leading components in which the tuples a and b are equal
EqualPrefix(a, b) ==
    Cardinality({n \in DOMAIN a : \A i \in 1 .. n : a[i] = b[i]})

\* The tuple a read as one bit string: the patterns of its components from
\* component i on, concatenated after the pattern acc
RECURSIVE Concat(_, _, _, _)
Concat(comps, a, i, acc) ==
    IF i > Len(comps) THEN acc
    ELSE IF comps[i] = "unit" THEN Concat(comps, a, i + 1, acc)
    ELSE Concat(comps, a, i + 1,
                acc * Pow2(IntWidth(comps[i])) + ToBits(a[i], IntWidth(comps[i])))

----------------------------------------------------------------------------
\* Wrapped keys

\* C15: with keys wrapped in Reverse the heap is a min-heap on the inner
\* keys: a pop returns the smallest stored inner key, not below the inner key
\* of the pop before it; right after a pop of Reverse(k) a push of Reverse(j)
\* is accepted exactly when j >= k; and inner keys pushed in any order and
\* then popped until None come out in ascending inner order.
ReverseMinHeap ==
    [][/\ (last'.op = "pop" /\ last'.ret # None) =>
             /\ \A e \in Stored : Unwrap(last'.ret)[1] <= e[1]
             /\ Unwrap(last'.ret) \in Stored
             /\ prevPop # None => Unwrap(prevPop) <= Unwrap(last'.ret)[1]
       /\ (last'.op = "push" /\ last.op = "pop" /\ last.ret # None) =>
             (last'.panic = NoPanic <=> Unwrap(last'.key) >= Unwrap(last.ret)[1])
       /\ phase' = "done" =>
             /\ Len(sortOut') = Len(sortIn')
             /\ \A k \in Keys(ktype) : Count(sortOut', k) = Count(sortIn', k)
             /\ \A i \in 1 .. (Len(sortOut') - 1) : sortOut'[i] <= sortOut'[i + 1]
      ]_vars

\* Reverse(-1) was popped, a larger inner key was pushed after that pop, and
\* the positive inner key has now been popped while an entry is left
ReverseMinHeapWitness ==
    /\ ktype = "rev(i)"
    /\ last.op = "pop" /\ last.ret # None
    /\ pops = 2 /\ pushes = 3 /\ len = 1
    /\ last.was.top = Some(0 - 1)
    /\ PoppedKey > 0
    /\ \A e \in Stored : e[1] >= PoppedKey

\* C16: non-NaN float keys (negative values, both zeros and the infinities
\* included), pushed in any order and then popped until None, come out as the
\* same keys in descending numeric order.
FloatSortEquivalence ==
    phase = "done" =>
        /\ Len(sortOut) = Len(sortIn)
        /\ \A k \in FloatKeys : Count(sortOut, k) = Count(sortIn, k)
        /\ \A i \in 1 .. (Len(sortOut) - 1) :
               FloatRank(sortOut[i + 1]) <= FloatRank(sortOut[i])

\* Without a pair of zeros of opposite sign among the keys pushed, the order
\* is the descending numeric order
FloatSortWithoutBothZeros ==
    (phase = "done" /\ ~(0 \in Range(sortIn) /\ Pow2(FloatBits - 1) \in Range(sortIn))) =>
        \A i \in 1 .. (Len(sortOut) - 1) :
            FloatRank(sortOut[i + 1]) <= FloatRank(sortOut[i])

----------------------------------------------------------------------------
\* Iteration

\* The items yielded by the iteration recorded in last
Yielded == Unwrap(last.ret)

\* C17: in every reachable state, iter() and into_iter() yield every stored
\* (key, value) pair exactly once and nothing else, and the number of items
\* yielded is len(), so the size counter does not underflow.
IterYieldsAll ==
    last.op \in {"iter", "into_iter"} =>
        /\ last.panic = NoPanic
        /\ Len(Yielded) = len
        /\ Len(Yielded) = StoredCount
        /\ Range(Yielded) = Stored
        /\ \A i, j \in DOMAIN Yielded : Yielded[i] = Yielded[j] => i = j

\* After a pop, two entries spread over two buckets and none in initial
\* have been yielded by iter()
IterYieldsAllWitness ==
    /\ last.op = "iter"
    /\ pops > 0 /\ top # None
    /\ len = 2
    /\ initial.elems = <<>>
    /\ \E i, j \in DOMAIN buckets :
           i # j /\ buckets[i].elems # <<>> /\ buckets[j].elems # <<>>
    /\ Len(Yielded) = 2

----------------------------------------------------------------------------
\* The monotonicity restriction

----------------------------------------------------------------------------
\* peek

\* C19: peek() returns the entry that the next pop would return, None on an
\* empty heap, and does not remove it: it runs constrain first when
\* buckets[0] is empty and changes nothing otherwise, it never changes len or
\* the stored entries, and a peek right after a peek returns the same entry.
PeekIsNextPop ==
    [][/\ last'.op = "peek" =>
             /\ last'.panic = NoPanic
             /\ last'.ret = pop(Heap).ret
             /\ last'.ret = pop(Heap)'.ret
             /\ len = 0 <=> last'.ret = None
             /\ last'.ret # None => Unwrap(last'.ret) \in Stored
             /\ len' = len
             /\ Stored' = Stored
             /\ StoredCount' = StoredCount
             /\ Heap' = IF BucketIsEmpty(buckets[1]) THEN constrain(Heap) ELSE Heap
             /\ last.op = "peek" =>
                   /\ last'.ret = last.ret
                   /\ UNCHANGED <<len, top, buckets, initial>>
       /\ (last'.op = "pop" /\ last.op = "peek") => last'.ret = last.ret
      ]_vars

\* peek() ran constrain, which lowered top, and returned one of two or more
\* entries
PeekIsNextPopWitness ==
    /\ last.op = "peek" /\ last.ret # None
    /\ len >= 2 /\ last.was.len = len
    /\ last.was.top # None /\ top # None
    /\ Lt(ktype, Unwrap(top), Unwrap(last.was.top))
    /\ Unwrap(last.ret)[1] = Unwrap(top)
    /\ \E e \in Stored : Lt(ktype, e[1], Unwrap(top))

----------------------------------------------------------------------------
\* The scan of constrain

\* The positions in buckets (from 1, for buckets[0]) of the non-empty buckets
NonEmptyPos == {i \in DOMAIN buckets : buckets[i].elems # <<>>}

\* The least element of the non-empty set S of integers
Least(S) == CHOOSE x \in S : \A y \in S : x <= y

\* C20, as stated: when top is Some, constrain looks at the buckets of index
\* >= 1 whether or not buckets[0] holds entries; the cached max of the first
\* non-empty one becomes top and that bucket is drained and its entries
\* re-inserted; if there is none, nothing changes.
ConstrainScansFromOne ==
    [][(last'.op = "constrain" /\ top # None) =>
          IF NonEmptyPos \ {1} # {}
          THEN /\ top' = buckets[Least(NonEmptyPos \ {1})].max
               /\ buckets'[Least(NonEmptyPos \ {1})].elems = <<>>
               /\ Stored' = Stored
          ELSE UNCHANGED <<len, top, buckets, initial>>
      ]_vars

\* C20, amended: when top is Some, constrain looks for the first non-empty
\* bucket from buckets[0] on. If that is buckets[0], or no bucket is
\* non-empty, nothing changes. Otherwise the cached max of that bucket
\* becomes top, the bucket is drained, and each of its entries is re-inserted
\* into the bucket of its distance to the new top, in front of that bucket;
\* the buckets behind it are unchanged.
ConstrainScansFromZero ==
    [][(last'.op = "constrain" /\ top # None) =>
          IF NonEmptyPos = {} \/ 1 \in NonEmptyPos
          THEN UNCHANGED <<len, top, buckets, initial>>
          ELSE LET at == Least(NonEmptyPos)
               IN  /\ last'.panic = NoPanic
                   /\ top' = buckets[at].max
                   /\ buckets'[at].elems = <<>>
                   /\ \A e \in Range(buckets[at].elems) :
                          /\ radix_distance(ktype, e[1], Unwrap(top')) + 1 < at
                          /\ e \in Range(buckets'[radix_distance(ktype, e[1], Unwrap(top')) + 1].elems)
                   /\ \A i \in DOMAIN buckets : i > at => buckets'[i] = buckets[i]
                   /\ buckets'[1].elems # <<>>
                   /\ Stored' = Stored
                   /\ len' = len /\ initial' = initial
      ]_vars

\* constrain was called with entries in buckets[0] and in a later bucket, and
\* left top and the buckets as they were
ConstrainScansFromZeroWitness ==
    /\ last.op = "constrain"
    /\ top # None /\ last.was.top = top
    /\ 1 \in NonEmptyPos
    /\ NonEmptyPos \ {1} # {}
    /\ \E i \in NonEmptyPos : i > 1 /\ Lt(ktype, Unwrap(buckets[i].max), Unwrap(top))

----------------------------------------------------------------------------
\* The invariants of the buckets

\* C21: whenever top is Some(t), every entry stored in buckets[d] has
\* radix_distance(key, t) = d, for every d in 0..=RADIX_BITS; buckets[0] holds
\* only entries whose key is t, and the entries of the buckets that a
\* constrain did not drain have the right distance to the new top.
BucketIsDistance ==
    top # None =>
        /\ \A i \in DOMAIN buckets : \A e \in Range(buckets[i].elems) :
               radix_distance(ktype, e[1], Unwrap(top)) = i - 1
        /\ \A e \in Range(buckets[1].elems) : e[1] = Unwrap(top)

\* A pop redistributed a bucket and lowered top while the last bucket, which
\* it did not drain, holds an entry
BucketIsDistanceWitness ==
    /\ last.op = "pop" /\ last.ret # None
    /\ last.was.top # None /\ top # last.was.top
    /\ RADIX_BITS(ktype) >= 2
    /\ buckets[Len(buckets)].elems # <<>>

\* C22: when constrain (called directly or by pop) redistributes bucket i,
\* i >= 1, every drained entry lands in a bucket of index below i and the
\* entry that supplied the new top lands in buckets[0]; the source bucket is
\* empty afterwards, no entry is lost, and the assertion that the swapped-out
\* bucket is empty holds. The entries of the other buckets do not move, so
\* the bucket index of an entry never increases, and an entry is moved at
\* most RADIX_BITS + 1 times.
RedistributionMovesDown ==
    [][/\ last'.panic \notin {RepushNotEmpty, ExpectNonEmpty}
       /\ \A v \in DOMAIN moves :
             /\ moves'[v] <= RADIX_BITS(ktype) + 1
             /\ \A p \in {PosIn(Heap, v)} : \A q \in {PosIn(Heap', v)} :
                   (p >= 0 /\ q >= 0) =>
                       /\ q <= p
                       /\ last'.op \notin {"constrain", "pop"} => q = p
       /\ (/\ last'.op \in {"constrain", "pop"}
           /\ top # None
           /\ NonEmptyPos # {}
           /\ 1 \notin NonEmptyPos) =>
             LET at == Least(NonEmptyPos)
                 drained == Range(buckets[at].elems)
             IN  /\ \A e \in drained : PosIn(Heap', e[2]) < at - 1
                 /\ buckets'[at].elems = <<>>
                 /\ \A i \in DOMAIN buckets : i > at => buckets'[i].elems = buckets[i].elems
                 /\ IF last'.op = "constrain"
                    THEN /\ \E e \in drained :
                               e[1] = Unwrap(top') /\ e \in Range(buckets'[1].elems)
                         /\ Stored' = Stored
                         /\ StoredCount' = StoredCount
                    ELSE /\ last'.ret # None
                         /\ Unwrap(last'.ret) \in drained
                         /\ Unwrap(last'.ret)[1] = Unwrap(top')
                         /\ Stored' = Stored \ {Unwrap(last'.ret)}
                         /\ StoredCount' = StoredCount - 1
      ]_vars

\* An entry pushed before top was set has been moved from the initial bucket
\* to the last bucket and from there down to buckets[0], bucket by bucket
RedistributionMovesDownWitness ==
    /\ last.op = "pop" /\ last.ret # None
    /\ \E v \in DOMAIN moves :
           /\ moves[v] = RADIX_BITS(ktype) + 1
           /\ PoppedValue = v

\* C23: whenever top is Some(t), every stored key is <= t, whatever pushes,
\* pops, constrain, new_at and clear_to led to the state.
StoredAtMostTop ==
    top # None => \A e \in Stored : Le(ktype, e[1], Unwrap(top))

\* After a pop, a key below top was pushed onto a heap that holds a key equal
\* to top
StoredAtMostTopWitness ==
    /\ last.op = "push" /\ last.panic = NoPanic
    /\ pops > 0 /\ top # None
    /\ Lt(ktype, Unwrap(last.key), Unwrap(top))
    /\ \E e \in Stored : e[1] = Unwrap(top)
    /\ \E e \in Stored : e[1] = Unwrap(last.key)

\* C24: the initial bucket and the indexed buckets are never both in use:
\* when top is Some the initial bucket is empty, and when top is None every
\* bucket of buckets is empty and all stored entries are in the initial
\* bucket.
InitialOrBuckets ==
    /\ top # None => initial.elems = <<>>
    /\ top = None =>
          /\ \A i \in DOMAIN buckets : buckets[i].elems = <<>>
          /\ Stored = Range(initial.elems)
          /\ Len(initial.elems) = len

\* constrain has moved the entries pushed while top was unset from the
\* initial bucket into buckets
InitialOrBucketsWitness ==
    /\ last.op = "constrain"
    /\ last.was.top = None /\ top # None
    /\ last.was.len = len /\ len >= 2
    /\ initial.elems = <<>>
    /\ SumLen(buckets, 1) = len

\* The cached max of the bucket b is None when b is empty and the largest key
\* among its entries otherwise
CacheIsMax(b) ==
    IF b.elems = <<>> THEN b.max = None
    ELSE /\ b.max # None
         /\ \E e \in Range(b.elems) : e[1] = Unwrap(b.max)
         /\ \A e \in Range(b.elems) : Le(ktype, e[1], Unwrap(b.max))

\* The caches of the initial bucket and of the buckets of index >= 1
CachesAreMax ==
    /\ CacheIsMax(initial)
    /\ \A i \in DOMAIN buckets : i > 1 => CacheIsMax(buckets[i])

\* The bucket that a constrain in this state drains: the initial bucket when
\* top is unset, else the first non-empty bucket
DrainedBucket == IF top = None THEN initial ELSE buckets[Least(NonEmptyPos)]

\* C25: for the initial bucket and every bucket of index >= 1 the cached max
\* is None when the bucket is empty and the largest key among its entries
\* otherwise (Bucket::pop, which leaves the cache alone, is applied to
\* buckets[0] only); so the expect on the max in repush_bucket never fails
\* and the top that a redistribution sets is the largest key of the drained
\* bucket.
CachedMaxIsExact ==
    [][/\ CachesAreMax
       /\ CachesAreMax'
       /\ last'.panic # ExpectNonEmpty
       /\ (/\ last'.op \in {"constrain", "pop"}
           /\ IF top = None THEN initial.elems # <<>>
              ELSE NonEmptyPos # {} /\ 1 \notin NonEmptyPos) =>
             /\ top' # None
             /\ \E e \in Range(DrainedBucket.elems) : e[1] = Unwrap(top')
             /\ \A e \in Range(DrainedBucket.elems) : Le(ktype, e[1], Unwrap(top'))
      ]_vars

\* A pop has emptied buckets[0], whose cache still holds the popped key,
\* while a bucket of index >= 1 holds two entries, the larger one pushed
\* first
CachedMaxIsExactWitness ==
    /\ last.op = "pop" /\ last.ret # None
    /\ buckets[1].elems = <<>> /\ buckets[1].max = Some(PoppedKey)
    /\ \E i \in DOMAIN buckets :
           /\ i > 1
           /\ Len(buckets[i].elems) = 2
           /\ Lt(ktype, buckets[i].elems[2][1], buckets[i].elems[1][1])
           /\ buckets[i].max = Some(buckets[i].elems[1][1])

\* C26: the heap always holds RADIX_BITS + 1 buckets (one for the unit key),
\* and every bucket index that push or a redistribution computes,
\* radix_distance(key, top), is in 0..=RADIX_BITS: no index is out of bounds
\* and pop always finds a first bucket.
BucketsInBounds ==
    /\ Len(buckets) = RADIX_BITS(ktype) + 1
    /\ Len(buckets) >= 1
    /\ ktype = "unit" => Len(buckets) = 1
    /\ last.panic \notin {IndexOutOfBounds, ExpectOneBucket}
    /\ top # None =>
          \A key \in Keys(ktype) :
              radix_distance(ktype, key, Unwrap(top)) + 1 \in DOMAIN buckets

\* On a heap of the key type with the most buckets, an entry has been pushed
\* into the last bucket and then popped from buckets[0]
BucketsInBoundsWitness ==
    /\ ktype = "i"
    /\ last.op = "pop" /\ last.ret # None
    /\ last.was.top # None
    /\ radix_distance(ktype, PoppedKey, Unwrap(last.was.top)) = RADIX_BITS(ktype)
    /\ len >= 1

====
